---- MODULE Spec2Model ----
(***************************************************************************)
(* A model of src/main.rs of bevy-santa-demo: the systems that main()      *)
(* registers in the Startup, Update and PostUpdate schedules, the          *)
(* resources Speed, Score and Lives, the two collision event queues and    *)
(* the entities (Santa, presents, snowflakes, UI hearts).                  *)
(*                                                                         *)
(* Engine behaviour the program rests on (bevy 0.15):                      *)
(*  - the systems of one add_systems tuple carry no ordering constraint,   *)
(*    so within a schedule they run in any order, each once per frame;     *)
(*  - Commands are deferred: with no ordering edge between systems they    *)
(*    are applied when the schedule has run all its systems;               *)
(*  - Events<E> is double buffered, every EventReader keeps its own cursor;*)
(*  - resource_changed::<R> is true for a system when R was added or       *)
(*    mutably dereferenced since that condition was last evaluated;        *)
(*  - the runner looks for AppExit after a whole frame has run.            *)
(***************************************************************************)
EXTENDS Integers, Sequences, FiniteSets, TLC

\* ------------------------------------------------------------------ bounds

\* main.rs:17-18 spawn 10 presents and 10 snowflakes; the model scales the two
\* counts down.
NPresents == 2
NSnowflakes == 4
\* The size of the primary window, in pixels.
Width == 532
Height == 96
\* How far outside the window the model follows an auto-mover, in pixels.
Overshoot == 200
\* time.delta_secs() of a frame, in milliseconds.
DeltaMs == 1000

\* ------------------------------------------------------- program constants

FREE_ZONE == 200
InitialSpeed == 100
InitialScore == 0
InitialLives == 3
SpeedIncrement == 50
ColliderRadius == 16
SpriteSize == 32

\* ---------------------------------------------------------------- entities

Santa == 0
Presents == 1..NPresents
Snowflakes == (NPresents + 1)..(NPresents + NSnowflakes)
AutoMovers == Presents \cup Snowflakes
Hearts == (NPresents + NSnowflakes + 1)..(NPresents + NSnowflakes + InitialLives)
\* The index i of UiHeart(i) of a heart entity (initialize_ui spawns 1..=lives).
UiHeart(e) == e - (NPresents + NSnowflakes)

\* The entities of the world that carry the marker component C.
WithComponent(w, C) ==
    CASE C = "Present" -> w \cap Presents
      [] C = "Snowflake" -> w \cap Snowflakes
      [] C = "Santa" -> w \cap {Santa}
      [] C = "UiHeart" -> w \cap Hearts

VARIABLES
    phase,            \* where the app is: "Startup", "First", "Update", "PostUpdate", "Exited", "Panicked"
    ran,              \* the systems of the current schedule that have run in this frame
    world,            \* the live entities
    position,         \* Transform.translation (x, y) of Santa and the live auto-movers
    direction,        \* AutoMoving.0 of the live auto-movers, in fifths: <<3, 4>> is (0.6, 0.8)
    delta,            \* time.delta_secs() of the current frame, in milliseconds
    score,            \* Score.0
    lives,            \* Lives.0, a u32: its 32 bits read as two's complement (2^32 - 1 is -1)
    speed,            \* Speed.0
    score_text,       \* the n of the UiScoreText text "Score: n"
    events,           \* Events<E> of the two event types added in main
    cursor,           \* last_event_count of each system's EventReader
    dirty,            \* the resource_changed conditions that will find their resource changed
    commands,         \* despawn commands queued in the current schedule
    exit,             \* the AppExit events sent, by the message printed with them
    window,           \* <<width, height>> of the primary window
    spawn             \* the entities whose spawn command a Startup system has queued

vars == <<phase, ran, world, position, direction, delta, score, lives, speed,
          score_text, events, cursor, dirty, commands,
          exit, window, spawn>>

\* ------------------------------------------------------------ u32 for Lives

\* Unsigned comparison of two u32 bit patterns.
U32Lt(a, b) == IF (a >= 0) = (b >= 0) THEN a < b ELSE a >= 0

\* ------------------------------------------------------------------ events

\* Events<E>::default()
EventsNew ==
    [events_a |-> <<>>, a_start |-> 0, events_b |-> <<>>, b_start |-> 0, event_count |-> 0]

\* EventWriter::send
EventsSend(ev, e) ==
    [ev EXCEPT !.events_b = Append(@, e), !.event_count = @ + 1]

RECURSIVE EventsSendBatch(_, _)
EventsSendBatch(ev, es) ==
    IF es = <<>> THEN ev ELSE EventsSendBatch(EventsSend(ev, Head(es)), Tail(es))

\* Events::update: the older buffer is dropped, the newer becomes the older.
EventsUpdate(ev) ==
    [events_a |-> ev.events_b, a_start |-> ev.b_start,
     events_b |-> <<>>, b_start |-> ev.event_count, event_count |-> ev.event_count]

Drop(s, n) == SubSeq(s, (IF n > Len(s) THEN Len(s) ELSE n) + 1, Len(s))
SaturatingSub(a, b) == IF a > b THEN a - b ELSE 0

\* EventReader::read for a cursor whose last_event_count is last: what both
\* buffers still hold past the cursor, older buffer first.
EventsRead(ev, last) ==
    Drop(ev.events_a, SaturatingSub(last, ev.a_start))
        \o Drop(ev.events_b, SaturatingSub(last, ev.b_start))

Range(s) == {s[i] : i \in 1..Len(s)}

\* ---------------------------------------------------------------- geometry

Center == <<Width \div 2, Height \div 2>>

DistSq(p, q) == (p[1] - q[1]) * (p[1] - q[1]) + (p[2] - q[2]) * (p[2] - q[2])

\* Collides without the factor 1.7: the distance is below the sum of the radii.
CollidesWithinRadii(p, q, rs, ro) == DistSq(p, q) < (rs + ro) * (rs + ro)

\* distance(p, q) < (rs + ro) * 1.7, squared and cleared of the fraction
\* (1.7 * 1.7 = 289 / 100).
Collides(p, q, rs, ro) == 100 * DistSq(p, q) < 289 * (rs + ro) * (rs + ro)

\* The entities of s in query iteration order (spawn order).
RECURSIVE InOrder(_)
InOrder(s) ==
    IF s = {} THEN <<>>
    ELSE LET m == CHOOSE x \in s : \A y \in s : x <= y
         IN <<m>> \o InOrder(s \ {m})

\* ColliderCircle.0 of an entity: Santa and every auto-mover are spawned with 16.
ColliderCircle(e) == ColliderRadius

\* ------------------------------------------------------------- the systems

EventTypes == {"CollisionWithPresentEvent", "CollisionWithSnowflakeEvent"}

\* The system named name takes its one turn in the schedule that is running.
Runs(schedule, name) ==
    /\ phase = schedule
    /\ name \notin ran
    /\ ran' = ran \cup {name}

\* The names of the instances of the two generic systems.
DetectName(C) ==
    IF C = "Present" THEN "detect_collisions_system::<Present>"
    ELSE "detect_collisions_system::<Snowflake>"
RemoveName(E) ==
    IF E = "CollisionWithPresentEvent" THEN "remove_entity_on_collission_system::<Present>"
    ELSE "remove_entity_on_collission_system::<Snowflake>"

detect_collisions_system(C, E) ==
    /\ Runs("Update", DetectName(C))
    /\ LET santa == position[Santa]
           hit == {e \in WithComponent(world, C) :
                      Collides(position[e], santa, ColliderCircle(Santa), ColliderCircle(e))}
       IN events' = [events EXCEPT ![E] = EventsSendBatch(@, InOrder(hit))]
    /\ UNCHANGED <<phase, world, position, direction, delta, score, lives, speed,
                   score_text, cursor, dirty, commands, exit, window, spawn>>

\* Despawn commands are queued; the schedule applies them when all its systems ran.
QueueDespawn(es) == commands' = commands \cup es

\* remove_entity_on_collission_system despawning every auto-mover once an event
\* of its type is unread.
remove_all_on_collission(E) ==
    /\ Runs("PostUpdate", RemoveName(E))
    /\ QueueDespawn(IF EventsRead(events[E], cursor[RemoveName(E)]) # <<>>
                    THEN world \cap AutoMovers ELSE {})
    /\ cursor' = [cursor EXCEPT ![RemoveName(E)] = events[E].event_count]
    /\ UNCHANGED <<phase, world, position, direction, delta, score, lives, speed,
                   score_text, events, dirty, exit, window, spawn>>

remove_entity_on_collission_system(E) ==
    /\ Runs("PostUpdate", RemoveName(E))
    /\ QueueDespawn(Range(EventsRead(events[E], cursor[RemoveName(E)])))
    /\ cursor' = [cursor EXCEPT ![RemoveName(E)] = events[E].event_count]
    /\ UNCHANGED <<phase, world, position, direction, delta, score, lives, speed,
                   score_text, events, dirty, exit, window, spawn>>

\* score_points_system adding one point per run instead of one per event.
score_points_once_per_run ==
    /\ Runs("Update", "score_points_system")
    /\ LET unread == EventsRead(events["CollisionWithPresentEvent"], cursor["score_points_system"])
       IN /\ score' = score + (IF unread # <<>> THEN 1 ELSE 0)
          /\ dirty' = IF unread # <<>> THEN dirty \cup {"update_score_ui"} ELSE dirty
    /\ cursor' = [cursor EXCEPT !["score_points_system"] = events["CollisionWithPresentEvent"].event_count]
    /\ UNCHANGED <<phase, world, position, direction, delta, lives, speed,
                   score_text, events, commands, exit, window, spawn>>

\* run_if(on_event::<CollisionWithPresentEvent>): the loop body runs once per unread event.
score_points_system ==
    /\ Runs("Update", "score_points_system")
    /\ LET unread == EventsRead(events["CollisionWithPresentEvent"], cursor["score_points_system"])
       IN /\ score' = score + Len(unread)
          /\ dirty' = IF unread # <<>> THEN dirty \cup {"update_score_ui"} ELSE dirty
    /\ cursor' = [cursor EXCEPT !["score_points_system"] = events["CollisionWithPresentEvent"].event_count]
    /\ UNCHANGED <<phase, world, position, direction, delta, lives, speed,
                   score_text, events, commands, exit, window, spawn>>

\* run_if(resource_changed::<Score>)
update_score_ui ==
    /\ Runs("Update", "update_score_ui")
    /\ score_text' = IF "update_score_ui" \in dirty THEN score ELSE score_text
    /\ dirty' = dirty \ {"update_score_ui"}
    /\ UNCHANGED <<phase, world, position, direction, delta, score, lives, speed,
                   events, cursor, commands, exit, window, spawn>>

\* lives.0 -= 1 on a u32, once per event: one of n subtractions passes below 0
\* exactly when lives.0 < n.
Underflows(l, n) == U32Lt(l, n)

\* The bits of l after n wrapping decrements.
WrappingDecrements(l, n) == l - n

\* run_if(on_event::<CollisionWithSnowflakeEvent>). A subtraction below 0 panics
\* in a build with overflow checks and wraps to 2^32 - 1 in one without.
take_lives_system ==
    /\ Runs("Update", "take_lives_system")
    /\ LET unread == EventsRead(events["CollisionWithSnowflakeEvent"], cursor["take_lives_system"])
       IN /\ dirty' = IF unread # <<>> THEN dirty \cup {"update_lives_ui", "loose_system"} ELSE dirty
          /\ IF ~Underflows(lives, Len(unread))
             THEN lives' = WrappingDecrements(lives, Len(unread)) /\ UNCHANGED phase
             ELSE \/ lives' = WrappingDecrements(lives, Len(unread)) /\ UNCHANGED phase
                  \/ lives' = 0 /\ phase' = "Panicked"
    /\ cursor' = [cursor EXCEPT !["take_lives_system"] = events["CollisionWithSnowflakeEvent"].event_count]
    /\ UNCHANGED <<world, position, direction, delta, score, speed,
                   score_text, events, commands, exit, window, spawn>>

\* run_if(resource_changed::<Lives>): every heart whose index is above lives.0
\* gets a despawn command (an unsigned comparison).
update_lives_ui ==
    /\ Runs("Update", "update_lives_ui")
    /\ IF "update_lives_ui" \in dirty
       THEN QueueDespawn({h \in WithComponent(world, "UiHeart") : U32Lt(lives, UiHeart(h))})
       ELSE UNCHANGED commands
    /\ dirty' = dirty \ {"update_lives_ui"}
    /\ UNCHANGED <<phase, world, position, direction, delta, score, lives, speed,
                   score_text, events, cursor, exit, window, spawn>>

\* run_if(on_event::<CollisionWithPresentEvent>), with a reader of its own.
speed_up_on_score ==
    /\ Runs("Update", "speed_up_on_score")
    /\ LET unread == EventsRead(events["CollisionWithPresentEvent"], cursor["speed_up_on_score"])
       IN speed' = speed + SpeedIncrement * Len(unread)
    /\ cursor' = [cursor EXCEPT !["speed_up_on_score"] = events["CollisionWithPresentEvent"].event_count]
    /\ UNCHANGED <<phase, world, position, direction, delta, score, lives,
                   score_text, events, dirty, commands, exit, window, spawn>>

\* win_system sending the exit when Score has reached the number of presents.
win_on_full_score ==
    /\ Runs("PostUpdate", "win_system")
    /\ exit' = IF score >= NPresents THEN exit \cup {"You win!"} ELSE exit
    /\ UNCHANGED <<phase, world, position, direction, delta, score, lives, speed,
                   score_text, events, cursor, dirty, commands, window, spawn>>

win_system ==
    /\ Runs("PostUpdate", "win_system")
    /\ exit' = IF WithComponent(world, "Present") = {} THEN exit \cup {"You win!"} ELSE exit
    /\ UNCHANGED <<phase, world, position, direction, delta, score, lives, speed,
                   score_text, events, cursor, dirty, commands, window, spawn>>

\* loose_system without the test lives.0 == 0: it exits whenever Lives changed.
loose_on_any_change ==
    /\ Runs("PostUpdate", "loose_system")
    /\ exit' = IF "loose_system" \in dirty THEN exit \cup {"You loose!"} ELSE exit
    /\ dirty' = dirty \ {"loose_system"}
    /\ UNCHANGED <<phase, world, position, direction, delta, score, lives, speed,
                   score_text, events, cursor, commands, window, spawn>>

\* run_if(resource_changed::<Lives>)
loose_system ==
    /\ Runs("PostUpdate", "loose_system")
    /\ exit' = IF "loose_system" \in dirty /\ lives = 0 THEN exit \cup {"You loose!"} ELSE exit
    /\ dirty' = dirty \ {"loose_system"}
    /\ UNCHANGED <<phase, world, position, direction, delta, score, lives, speed,
                   score_text, events, cursor, commands, window, spawn>>

\* a / b rounded toward zero, the same for a displacement and its negation.
Trunc(a, b) == IF a >= 0 THEN a \div b ELSE -((-a) \div b)

\* direction component * speed.0 * time.delta_secs(), for a component in fifths.
Displacement(d) == Trunc(d * speed * delta, 5 * 1000)

Moved(e) ==
    <<position[e][1] + Displacement(direction[e][1]),
      position[e][2] + Displacement(direction[e][2])>>

InModelledArea(p) ==
    /\ p[1] \in (0 - Overshoot)..(window[1] + Overshoot)
    /\ p[2] \in (0 - Overshoot)..(window[2] + Overshoot)

automoving_system ==
    /\ Runs("Update", "automoving_system")
    /\ \A e \in DOMAIN direction : InModelledArea(Moved(e))
    /\ position' = [e \in DOMAIN position |->
                       IF e \in DOMAIN direction THEN Moved(e) ELSE position[e]]
    /\ UNCHANGED <<phase, world, direction, delta, score, lives, speed, score_text,
                   events, cursor, dirty, commands, exit, window, spawn>>

\* let half_size = 32. / 2.
half_size == SpriteSize \div 2

\* Bounced with strict comparisons: an auto-mover exactly on an edge keeps going.
BouncedPastEdge(p, d) ==
    <<IF p[1] - half_size < 0 \/ p[1] + half_size > window[1] THEN -d[1] ELSE d[1],
      IF p[2] - half_size < 0 \/ p[2] + half_size > window[2] THEN -d[2] ELSE d[2]>>

\* The direction of an auto-mover at translation p after the two edge tests.
Bounced(p, d) ==
    <<IF p[1] - half_size <= 0 \/ p[1] + half_size >= window[1] THEN -d[1] ELSE d[1],
      IF p[2] - half_size <= 0 \/ p[2] + half_size >= window[2] THEN -d[2] ELSE d[2]>>

bounce_automovers_system ==
    /\ Runs("Update", "bounce_automovers_system")
    /\ direction' = [e \in DOMAIN direction |-> Bounced(position[e], direction[e])]
    /\ UNCHANGED <<phase, world, position, delta, score, lives, speed, score_text,
                   events, cursor, dirty, commands, exit, window, spawn>>

\* Santa's translation after the four key tests, taken in the order of the code;
\* left stands for ArrowLeft or KeyJ being pressed, and so on.
MovedSanta(p, left, right, up, down) ==
    LET step == Trunc(speed * delta, 1000)
        x1 == IF left /\ p[1] > SpriteSize \div 2 THEN p[1] - step ELSE p[1]
        x2 == IF right /\ x1 < window[1] - SpriteSize \div 2 THEN x1 + step ELSE x1
        y1 == IF up /\ p[2] < window[2] - SpriteSize \div 2 THEN p[2] + step ELSE p[2]
        y2 == IF down /\ y1 > SpriteSize \div 2 THEN y1 - step ELSE y1
    IN <<x2, y2>>

move_santa_system ==
    /\ Runs("Update", "move_santa_system")
    /\ \E left, right, up, down \in BOOLEAN :
          position' = [position EXCEPT ![Santa] = MovedSanta(@, left, right, up, down)]
    /\ UNCHANGED <<phase, world, direction, delta, score, lives, speed, score_text,
                   events, cursor, dirty, commands, exit, window, spawn>>

\* ------------------------------------------------------------ the schedules

UpdateSystems ==
    {DetectName("Present"), DetectName("Snowflake"), "score_points_system",
     "update_score_ui", "take_lives_system", "update_lives_ui", "speed_up_on_score"}

PostUpdateSystems ==
    {RemoveName("CollisionWithPresentEvent"), RemoveName("CollisionWithSnowflakeEvent"),
     "win_system", "loose_system"}

\* ApplyDeferred dropping the queued despawns instead of applying them.
DropDeferred ==
    /\ world' = world
    /\ position' = position
    /\ direction' = direction
    /\ commands' = {}

\* The queued despawns take effect: the entities leave the world with their components.
ApplyDeferred ==
    /\ world' = world \ commands
    /\ position' = [e \in DOMAIN position \ commands |-> position[e]]
    /\ direction' = [e \in DOMAIN direction \ commands |-> direction[e]]
    /\ commands' = {}

\* The Update schedule has run all its systems; PostUpdate follows.
EndUpdate(systems) ==
    /\ phase = "Update"
    /\ ran = systems
    /\ ApplyDeferred
    /\ phase' = "PostUpdate"
    /\ ran' = {}
    /\ UNCHANGED <<delta, score, lives, speed, score_text, events, cursor, dirty,
                   exit, window, spawn>>

\* The frame is over: the runner exits when an AppExit was sent, and otherwise
\* runs the next frame.
EndPostUpdate(systems) ==
    /\ phase = "PostUpdate"
    /\ ran = systems
    /\ ApplyDeferred
    /\ phase' = IF exit # {} THEN "Exited" ELSE "First"
    /\ ran' = {}
    /\ UNCHANGED <<delta, score, lives, speed, score_text, events, cursor, dirty,
                   exit, window, spawn>>

\* event_update_system of the First schedule. With the engine's fixed-timestep
\* plugin it runs in the frames that follow a fixed update, so a frame may skip it.
event_update_system(update) ==
    events' = IF update THEN [E \in EventTypes |-> EventsUpdate(events[E])] ELSE events

\* ------------------------------------------------- the session specification

Readers ==
    {"score_points_system", "speed_up_on_score", "take_lives_system",
     RemoveName("CollisionWithPresentEvent"), RemoveName("CollisionWithSnowflakeEvent")}

ChangeObservers == {"update_score_ui", "update_lives_ui", "loose_system"}

\* Where initialize_automovers can put an auto-mover, and two places it can be
\* later: just within collision range of the window's center, where Santa
\* stands (54 < 54.4), and just out of it (55 > 54.4).
SpawnPlace == <<Width - 16, Center[2]>>
NearPlace == <<Center[1] + 54, Center[2]>>
FarPlace == <<Center[1] + 55, Center[2]>>

\* The state the Startup schedule leaves: the resources inserted in main, Santa in
\* the middle of the window, every auto-mover outside the free zone, one heart
\* per life, the score label "Score: 0", no event sent.
Init ==
    /\ phase = "First"
    /\ ran = {}
    /\ world = {Santa} \cup AutoMovers \cup Hearts
    /\ position = [e \in {Santa} \cup AutoMovers |-> IF e = Santa THEN Center ELSE SpawnPlace]
    /\ direction = [e \in AutoMovers |-> <<3, 4>>]
    /\ delta = 0
    /\ score = InitialScore
    /\ lives = InitialLives
    /\ speed = InitialSpeed
    /\ score_text = 0
    /\ events = [E \in EventTypes |-> EventsNew]
    /\ cursor = [r \in Readers |-> 0]
    /\ dirty = ChangeObservers
    /\ commands = {}
    /\ exit = {}
    /\ window = <<Width, Height>>
    /\ spawn = {}

\* The k lowest-numbered entities of s.
Lowest(s, k) == {e \in s : Cardinality({x \in s : x < e}) < k}

\* A frame begins. The session specification sums up what automoving_system and
\* move_santa_system do to the Transforms in a frame, under any key input and any
\* elapsed time: when the frame's collision detection looks, any number of the
\* live presents and any number of the live snowflakes are in range of Santa.
\* The auto-movers of one kind are spawned by the same loop with the same
\* components, so the ones in range are taken to be the lowest-numbered.
SessionFrame ==
    /\ phase = "First"
    /\ \E update \in BOOLEAN : event_update_system(update)
    /\ \E np \in 0..Cardinality(world \cap Presents), ns \in 0..Cardinality(world \cap Snowflakes) :
          LET near == Lowest(world \cap Presents, np) \cup Lowest(world \cap Snowflakes, ns)
          IN position' = [e \in DOMAIN position |->
                             IF e = Santa THEN position[e]
                             ELSE IF e \in near THEN NearPlace ELSE FarPlace]
    /\ phase' = "Update"
    /\ delta' = DeltaMs
    /\ UNCHANGED <<ran, world, direction, score, lives, speed, score_text,
                   cursor, dirty, commands, exit, window, spawn>>

Next ==
    \/ SessionFrame
    \/ detect_collisions_system("Present", "CollisionWithPresentEvent")
    \/ detect_collisions_system("Snowflake", "CollisionWithSnowflakeEvent")
    \/ score_points_system
    \/ update_score_ui
    \/ take_lives_system
    \/ update_lives_ui
    \/ speed_up_on_score
    \/ EndUpdate(UpdateSystems)
    \/ remove_entity_on_collission_system("CollisionWithPresentEvent")
    \/ remove_entity_on_collission_system("CollisionWithSnowflakeEvent")
    \/ win_system
    \/ loose_system
    \/ EndPostUpdate(PostUpdateSystems)

Spec == Init /\ [][Next]_vars

\* ------------------------------------------------ the movement specification

\* The movement specification runs the systems that write Transforms and
\* directions, for Santa and two auto-movers: a present that moves along x and
\* a snowflake that moves along (0.6, 0.8). No other system writes either.
MoveObjects == {1, NPresents + 1}

MoveUpdateSystems == {"automoving_system", "bounce_automovers_system", "move_santa_system"}

\* Santa in the middle of the window; two positions initialize_automovers can
\* produce (more than FREE_ZONE from the center) and two directions it can draw.
InitMove ==
    /\ phase = "First"
    /\ ran = {}
    /\ world = {Santa} \cup MoveObjects
    /\ position = (Santa :> Center) @@ (1 :> <<Width - 16, 48>>)
                      @@ ((NPresents + 1) :> <<Width - 1, 48>>)
    /\ direction = (1 :> <<5, 0>>) @@ ((NPresents + 1) :> <<3, 4>>)
    /\ delta = 0
    /\ score = InitialScore
    /\ lives = InitialLives
    /\ speed = InitialSpeed
    /\ score_text = 0
    /\ events = [E \in EventTypes |-> EventsNew]
    /\ cursor = [r \in Readers |-> 0]
    /\ dirty = ChangeObservers
    /\ commands = {}
    /\ exit = {}
    /\ window = <<Width, Height>>
    /\ spawn = {}

\* The First schedule of a frame: the clock advances.
MoveFrame ==
    /\ phase = "First"
    /\ delta' = DeltaMs
    /\ phase' = "Update"
    /\ UNCHANGED <<ran, world, position, direction, score, lives, speed, score_text,
                   events, cursor, dirty, commands, exit, window, spawn>>

NextMove ==
    \/ MoveFrame
    \/ automoving_system
    \/ bounce_automovers_system
    \/ move_santa_system
    \/ EndUpdate(MoveUpdateSystems)
    \/ EndPostUpdate({})

SpecMove == InitMove /\ [][NextMove]_vars

\* The app runs frame after frame: a schedule that can take a step does.
SpecMoveFair == SpecMove /\ WF_vars(NextMove)

\* ------------------------------------------------- the startup specification

\* The window sizes the startup specification is run with: the model's window,
\* the engine's default window, and a window no point of which is more than
\* FREE_ZONE from its center.
Windows == {<<Width, Height>>, <<1280, 720>>, <<Width - 300, Height>>}

\* The pairs the two calls fastrand::u32(0..nx) and fastrand::u32(0..ny) of one
\* pass are taken to return, for a window whose center is (cx, cy): the pair that
\* lands on the left edge of the sampled area, on the center, FREE_ZONE to the
\* right of the center, one pixel further, and on the far corner.
Draws(nx, ny, cx, cy) ==
    {<<0, cy - SpriteSize>>,
     <<cx - SpriteSize, cy - SpriteSize>>,
     <<cx - SpriteSize + FREE_ZONE, cy - SpriteSize>>,
     <<cx - SpriteSize + FREE_ZONE + 1, cy - SpriteSize>>,
     <<nx - 1, ny - 1>>} \cap ((0..(nx - 1)) \X (0..(ny - 1)))

\* The direction Vec2::new(fastrand::f32(), fastrand::f32()).normalize() is taken
\* to return, in fifths.
DirectionDraws == {<<3, 4>>}

\* OutsideFreeZone that also accepts a point exactly FREE_ZONE from the center.
OutsideOrOnFreeZone(x, y, w, h) ==
    (2 * x - w) * (2 * x - w) + (2 * y - h) * (2 * y - h) >= 4 * FREE_ZONE * FREE_ZONE

\* distance_to_center > FREE_ZONE for the point (x, y) of a w x h window, with
\* both sides doubled (width / 2.0 is not whole for an odd width) and squared.
OutsideFreeZone(x, y, w, h) ==
    (2 * x - w) * (2 * x - w) + (2 * y - h) * (2 * y - h) > 4 * FREE_ZONE * FREE_ZONE

\* The entities initialize_automovers::<T, N> spawns, and its name as a system.
Kind(T) == IF T = "Present" THEN Presents ELSE Snowflakes
InitName(T) ==
    IF T = "Present" THEN "initialize_automovers::<Present>"
    ELSE "initialize_automovers::<Snowflake>"

\* One pass of the inner loop of initialize_automovers::<T, N>: a sample is drawn;
\* one outside the free zone breaks the loop and the object is spawned with it,
\* any other is dropped and the loop goes round again. The system has run when
\* its N objects are spawned.
initialize_automovers(T) ==
    /\ phase = "Startup"
    /\ InitName(T) \notin ran
    /\ LET width == window[1]
           height == window[2]
           e == CHOOSE x \in Kind(T) \ spawn : \A y \in Kind(T) \ spawn : x <= y
       IN \E draw \in Draws(width - SpriteSize, height - SpriteSize, width \div 2, height \div 2),
             d \in DirectionDraws :
             LET x == SpriteSize + draw[1]
                 y == SpriteSize + draw[2]
             IN IF OutsideFreeZone(x, y, width, height)
                THEN /\ spawn' = spawn \cup {e}
                     /\ position' = position @@ (e :> <<x, y>>)
                     /\ direction' = direction @@ (e :> d)
                     /\ ran' = IF Kind(T) \subseteq spawn \cup {e} THEN ran \cup {InitName(T)} ELSE ran
                ELSE UNCHANGED <<spawn, position, direction, ran>>
    /\ UNCHANGED <<phase, world, delta, score, lives, speed, score_text, events, cursor,
                   dirty, commands, exit, window>>

initialize_santa ==
    /\ Runs("Startup", "initialize_santa")
    /\ spawn' = spawn \cup {Santa}
    /\ position' = position @@ (Santa :> <<window[1] \div 2, window[2] \div 2>>)
    /\ UNCHANGED <<phase, world, direction, delta, score, lives, speed, score_text, events,
                   cursor, dirty, commands, exit, window>>

\* The score label "Score: 0" and one heart UiHeart(i) for each i in 1..=lives.0.
initialize_ui ==
    /\ Runs("Startup", "initialize_ui")
    /\ spawn' = spawn \cup {h \in Hearts : UiHeart(h) \in 1..lives}
    /\ score_text' = 0
    /\ UNCHANGED <<phase, world, position, direction, delta, score, lives, speed, events,
                   cursor, dirty, commands, exit, window>>

StartupSystems ==
    {InitName("Present"), InitName("Snowflake"), "initialize_santa", "initialize_ui"}

\* The Startup schedule has run all its systems: the queued spawns take effect.
EndStartup ==
    /\ phase = "Startup"
    /\ ran = StartupSystems
    /\ world' = world \cup spawn
    /\ spawn' = {}
    /\ phase' = "First"
    /\ ran' = {}
    /\ UNCHANGED <<position, direction, delta, score, lives, speed, score_text, events,
                   cursor, dirty, commands, exit, window>>

\* The app as main builds it, before the Startup schedule has run.
InitSpawn ==
    /\ phase = "Startup"
    /\ ran = {}
    /\ world = {}
    /\ position = <<>>
    /\ direction = <<>>
    /\ delta = 0
    /\ score = InitialScore
    /\ lives = InitialLives
    /\ speed = InitialSpeed
    /\ score_text = 0
    /\ events = [E \in EventTypes |-> EventsNew]
    /\ cursor = [r \in Readers |-> 0]
    /\ dirty = ChangeObservers
    /\ commands = {}
    /\ exit = {}
    /\ window \in Windows
    /\ spawn = {}

NextSpawn ==
    \/ initialize_automovers("Present")
    \/ initialize_automovers("Snowflake")
    \/ initialize_santa
    \/ initialize_ui
    \/ EndStartup

SpecSpawn == InitSpawn /\ [][NextSpawn]_vars

\* A pass of the sampling loop of initialize_automovers::<T, N> that draws a
\* sample outside the free zone.
AcceptedSample(T) == initialize_automovers(T) /\ spawn' # spawn

\* Startup keeps running, and the random draws are fair: a loop that could draw
\* an accepted sample again and again does draw one.
SpecSpawnFair ==
    /\ SpecSpawn
    /\ WF_vars(NextSpawn)
    /\ SF_vars(AcceptedSample("Present"))
    /\ SF_vars(AcceptedSample("Snowflake"))

\* ------------------------------------------------------------------- claims

\* C1: Lives is a counter that never increases, and take_lives_system never
\* takes it below 0: no step wraps it around to 2^32 - 1 and none aborts on the
\* subtraction, however many snowflake events one frame consumes.
C1_LivesNeverBelowZero ==
    [][~U32Lt(lives, lives') /\ phase' # "Panicked"]_vars

\* C2: starting from 3 lives, once take_lives_system has consumed three snowflake
\* collision events the frame in which it did ends the session in a loss:
\* loose_system has sent the exit and no further frame begins.
C2_ThreeCollisionsEndInLoss ==
    (cursor["take_lives_system"] >= InitialLives /\ phase \in {"First", "Exited", "Panicked"})
        => (phase = "Exited" /\ "You loose!" \in exit)

NoSnowflakeCollision == events["CollisionWithSnowflakeEvent"].event_count = 0

\* C3: when win_system sends the exit in a session without a snowflake
\* collision, Score equals the number of presents spawned, and it still does when
\* the app has exited, in whatever order the systems of a schedule ran.
C3_WinWithFullScore ==
    ("You win!" \in exit /\ NoSnowflakeCollision) => score = NPresents

C3_Witness ==
    /\ phase = "Exited"
    /\ "You win!" \in exit
    /\ NoSnowflakeCollision
    /\ score = NPresents
    /\ WithComponent(world, "Present") = {}

Collected == NPresents - Cardinality(WithComponent(world, "Present"))

\* C4: every present collision has its effects exactly once: when the session is
\* over, Score is the number of presents removed, Speed is 100 plus 50 for each
\* of them, and the score text shows that score.
C4_PresentCollisionEffects ==
    phase = "Exited" =>
        /\ score = Collected
        /\ speed = InitialSpeed + SpeedIncrement * Collected
        /\ score_text = score

\* C5: the collision events detect_collisions_system emits in a frame are consumed
\* by score_points_system, speed_up_on_score and take_lives_system in that frame's
\* Update schedule, before PostUpdate removes the entities they name.
C5_EffectsBeforeRemoval ==
    phase = "PostUpdate" =>
        /\ cursor["score_points_system"] = events["CollisionWithPresentEvent"].event_count
        /\ cursor["speed_up_on_score"] = events["CollisionWithPresentEvent"].event_count
        /\ cursor["take_lives_system"] = events["CollisionWithSnowflakeEvent"].event_count

\* C6: after every frame Santa's translation lies in
\* [16, width - 16] x [16, height - 16], whatever keys were held.
C6_SantaStaysInWindow ==
    phase = "First" =>
        /\ 16 <= position[Santa][1] /\ position[Santa][1] <= window[1] - 16
        /\ 16 <= position[Santa][2] /\ position[Santa][2] <= window[2] - 16

\* The auto-movers that are spawned or whose spawn is queued.
Spawned == (world \cup spawn) \cap AutoMovers

\* C7: every auto-mover initialize_automovers creates starts more than 200 from
\* the center of the window (compared with both sides doubled and squared).
C7_SpawnOutsideFreeZone ==
    \A e \in Spawned :
        LET dx2 == 2 * position[e][1] - window[1]
            dy2 == 2 * position[e][2] - window[2]
        IN dx2 * dx2 + dy2 * dy2 > 4 * 200 * 200

C7_Witness ==
    /\ phase = "First"
    /\ AutoMovers \subseteq world
    /\ \E e \in Presents : position[e] = <<window[1] \div 2 + 201, window[2] \div 2>>
    /\ \E e \in Snowflakes : position[e] = <<window[1] - 1, window[2] - 1>>

\* C8: every auto-mover initialize_automovers creates starts in the window inset by
\* half the sprite size: 16 <= x <= width - 16 and 16 <= y <= height - 16.
C8_SpawnInsideInset ==
    \A e \in Spawned :
        /\ 16 <= position[e][1] /\ position[e][1] <= window[1] - 16
        /\ 16 <= position[e][2] /\ position[e][2] <= window[2] - 16

BounceRuns == "bounce_automovers_system" \notin ran /\ "bounce_automovers_system" \in ran'
OnEdgeX(p) == p[1] - 16 <= 0 \/ p[1] + 16 >= window[1]
OnEdgeY(p) == p[2] - 16 <= 0 \/ p[2] + 16 >= window[2]

\* C9: a run of bounce_automovers_system negates the x component of an
\* auto-mover's direction exactly when x - 16 <= 0 or x + 16 >= width and the y
\* component exactly when y - 16 <= 0 or y + 16 >= height, changes no magnitude,
\* and leaves every position and the set of auto-movers as they were.
C9_BounceFlipsExactlyOnEdges ==
    [][BounceRuns =>
          /\ position' = position
          /\ DOMAIN direction' = DOMAIN direction
          /\ \A e \in DOMAIN direction :
                /\ OnEdgeX(position[e]) => direction'[e][1] = 0 - direction[e][1]
                /\ ~OnEdgeX(position[e]) => direction'[e][1] = direction[e][1]
                /\ OnEdgeY(position[e]) => direction'[e][2] = 0 - direction[e][2]
                /\ ~OnEdgeY(position[e]) => direction'[e][2] = direction[e][2]]_vars

\* bounce_automovers_system was the first system of this frame's Update, with one
\* auto-mover exactly on the left edge, inside on y, now heading right, and
\* another past an x edge and a y edge at once.
C9_Witness ==
    /\ phase = "Update"
    /\ ran = {"bounce_automovers_system"}
    /\ \E e \in DOMAIN direction :
          /\ position[e][1] = 16
          /\ ~OnEdgeY(position[e])
          /\ direction[e][1] > 0
    /\ \E e \in DOMAIN direction :
          /\ OnEdgeX(position[e]) /\ OnEdgeY(position[e])
          /\ direction[e][1] # 0 /\ direction[e][2] # 0

DetectRuns(C) == DetectName(C) \notin ran /\ DetectName(C) \in ran'

\* The events a step appends to the queue of event type E.
Sent(E) == SubSeq(events'[E].events_b, Len(events[E].events_b) + 1, Len(events'[E].events_b))

\* The live entities with component C whose distance to Santa is below
\* (16 + 16) * 1.7 = 54.4: the squared distance, a whole number, is at most 2959.
InRange(C) == {e \in WithComponent(world, C) : DistSq(position[e], position[Santa]) <= 2959}

\* C10: a run of detect_collisions_system sends one event for each live object of
\* its kind whose distance to Santa is below (16 + 16) * 1.7, naming that object,
\* and nothing else: no event for any other object, none of the other type.
C10_DetectEmitsOnePerObjectInRange ==
    [][/\ DetectRuns("Present") =>
             /\ Range(Sent("CollisionWithPresentEvent")) = InRange("Present")
             /\ Len(Sent("CollisionWithPresentEvent")) = Cardinality(InRange("Present"))
             /\ events'["CollisionWithSnowflakeEvent"] = events["CollisionWithSnowflakeEvent"]
       /\ DetectRuns("Snowflake") =>
             /\ Range(Sent("CollisionWithSnowflakeEvent")) = InRange("Snowflake")
             /\ Len(Sent("CollisionWithSnowflakeEvent")) = Cardinality(InRange("Snowflake"))
             /\ events'["CollisionWithPresentEvent"] = events["CollisionWithPresentEvent"]]_vars

\* Both detection systems have run in a frame in which two snowflakes and one
\* present were in range, and a live snowflake and a live present were not.
C10_Witness ==
    /\ phase = "Update"
    /\ {DetectName("Present"), DetectName("Snowflake")} \subseteq ran
    /\ Len(events["CollisionWithSnowflakeEvent"].events_b) = 2
    /\ Range(events["CollisionWithSnowflakeEvent"].events_b) = InRange("Snowflake")
    /\ Len(events["CollisionWithPresentEvent"].events_b) = 1
    /\ Range(events["CollisionWithPresentEvent"].events_b) = InRange("Present")
    /\ \E e \in WithComponent(world, "Snowflake") : e \notin InRange("Snowflake")
    /\ \E e \in WithComponent(world, "Present") : e \notin InRange("Present")

\* A frame ends: PostUpdate has run all its systems.
FrameEnds == phase = "PostUpdate" /\ phase' # "PostUpdate"

\* The entities named by the events the queue of type E holds.
Named(ev) == Range(ev.events_a) \cup Range(ev.events_b)

WinOrLooseRuns ==
    \E name \in {"win_system", "loose_system"} : name \notin ran /\ name \in ran'

\* C12: evaluating win_system or loose_system while a Present remains and Lives
\* is not 0 sends no exit and leaves Score, Lives, Speed and the entities (those
\* alive, their positions, the queued despawns) as they were, in every frame.
C12_NoEffectWhileNeitherHolds ==
    [][(WinOrLooseRuns /\ WithComponent(world, "Present") # {} /\ lives # 0)
          => /\ exit' = exit
             /\ score' = score /\ lives' = lives /\ speed' = speed
             /\ world' = world /\ position' = position /\ direction' = direction
             /\ commands' = commands]_vars

\* Both systems have been evaluated in a frame after Lives had changed twice and
\* one present had been collected, and no exit was sent.
C12_Witness ==
    /\ phase = "PostUpdate"
    /\ {"win_system", "loose_system"} \subseteq ran
    /\ exit = {}
    /\ lives = InitialLives - 2
    /\ Cardinality(WithComponent(world, "Present")) = NPresents - 1
    /\ score = 1

\* The heart icons on screen, by index.
HeartIcons == {UiHeart(h) : h \in WithComponent(world, "UiHeart")}

\* update_lives_ui has seen the last change of Lives and its despawns are applied.
LivesUiUpToDate ==
    /\ phase \in {"First", "PostUpdate", "Exited"}
    /\ "update_lives_ui" \notin dirty
    /\ cursor["take_lives_system"] = events["CollisionWithSnowflakeEvent"].event_count

\* C13: once update_lives_ui has processed the last change of Lives, the heart
\* icons are exactly those of 1..3 whose index is at most Lives, and there is one
\* heart fewer for each snowflake collision so far (of the first three).
C13_HeartsTrackLives ==
    LivesUiUpToDate =>
        /\ HeartIcons = {i \in 1..InitialLives : ~U32Lt(lives, i)}
        /\ events["CollisionWithSnowflakeEvent"].event_count <= InitialLives
              => Cardinality(HeartIcons)
                     = InitialLives - events["CollisionWithSnowflakeEvent"].event_count

\* A step in which the system named name takes its turn.
Takes(name) == name \notin ran /\ name \in ran'

\* C14: take_lives_system leaves Score and Speed as they were; score_points_system
\* and speed_up_on_score leave Lives as it was; remove_entity_on_collission_system
\* queues the despawn of entities named by events of its type and of nothing else;
\* when a schedule ends only entities with a queued despawn leave the world (hearts
\* after Update, the named auto-movers after PostUpdate); Santa is always alive.
C14_CollisionHandlingTouchesOnlyItsOwn ==
    [][/\ Takes("take_lives_system") => score' = score /\ speed' = speed
       /\ (Takes("score_points_system") \/ Takes("speed_up_on_score")) => lives' = lives
       /\ \A E \in EventTypes :
             Takes(RemoveName(E)) =>
                 /\ commands' \ commands \subseteq Named(events[E])
                 /\ world' = world
       /\ world \ world' \subseteq commands
       /\ phase = "Update" => world \ world' \subseteq Hearts
       /\ phase = "PostUpdate" =>
              world \ world' \subseteq Named(events["CollisionWithPresentEvent"])
                                       \cup Named(events["CollisionWithSnowflakeEvent"])
       /\ Santa \in world']_vars

\* Both removal systems have run in a frame in which one present and one
\* snowflake collided, for the first time: their despawns are queued, the other
\* auto-movers are not touched, and each resource changed once.
C14_Witness ==
    /\ phase = "PostUpdate"
    /\ {RemoveName(E) : E \in EventTypes} \subseteq ran
    /\ Cardinality(commands \cap Presents) = 1
    /\ Cardinality(commands \cap Snowflakes) = 1
    /\ Cardinality(world \cap AutoMovers) = NPresents + NSnowflakes
    /\ score = 1 /\ speed = InitialSpeed + SpeedIncrement /\ lives = InitialLives - 1

\* C15: at the end of every frame Speed = 100 + 50 * Score (and so Speed > 0).
C15_SpeedFollowsScore ==
    phase \in {"First", "Exited"} => (speed = 100 + 50 * score /\ speed > 0)

\* The number of events of type E sent so far equals the number of entities of
\* kind C removed so far plus the number of those still alive that a held event
\* names: no entity has been the subject of two events.
OneEventEach(E, C, N, w, ev) ==
    ev[E].event_count
        = (N - Cardinality(WithComponent(w, C))) + Cardinality(Named(ev[E]) \cap w)

\* C16 (as the code has it): detect_collisions_system never reports an entity for
\* which an event is still held, every present and snowflake is the subject of
\* at most one event, an entity named by an event is gone when the frame ends,
\* Score never decreases and never exceeds the number of presents, and at the
\* end of every frame Score plus the number of live presents is at most that.
C16_NoEntityCountedTwice ==
    [][/\ \A E \in EventTypes : Range(Sent(E)) \cap Named(events[E]) = {}
       /\ OneEventEach("CollisionWithPresentEvent", "Present", NPresents, world', events')
       /\ OneEventEach("CollisionWithSnowflakeEvent", "Snowflake", NSnowflakes, world', events')
       /\ FrameEnds => \A E \in EventTypes : Named(events'[E]) \cap world' = {}
       /\ score' >= score
       /\ score' <= NPresents
       /\ FrameEnds => score' + Cardinality(WithComponent(world', "Present")) <= NPresents]_vars

\* Presents and snowflakes have collided in two successive frames and every
\* present is counted.
C16_Witness ==
    /\ phase = "First"
    /\ \A E \in EventTypes : Len(events[E].events_a) = 1 /\ Len(events[E].events_b) = 1
    /\ score = NPresents
    /\ WithComponent(world, "Present") = {}

\* C16 (as stated): in every state Score plus the number of live presents is at
\* most the number of presents spawned.
C16_ScorePlusLivePresents ==
    score + Cardinality(WithComponent(world, "Present")) <= NPresents

\* automoving_system is about to take an auto-mover out of the area the movement
\* specification follows.
LeavesModelledArea ==
    /\ phase = "Update"
    /\ "automoving_system" \notin ran
    /\ \E e \in DOMAIN direction : ~InModelledArea(Moved(e))

\* C17: an auto-mover that satisfies the bounce condition on an axis is later
\* strictly inside the bounds on that axis (or has gone further out than the
\* specification follows it).
C17_BouncedAutoMoverComesBack ==
    \A e \in MoveObjects :
        /\ OnEdgeX(position[e]) ~> (~OnEdgeX(position[e]) \/ LeavesModelledArea)
        /\ OnEdgeY(position[e]) ~> (~OnEdgeY(position[e]) \/ LeavesModelledArea)

\* C18: startup completes, with every present and every snowflake spawned, for
\* every window it is run with.
C18_StartupCompletes ==
    <>(phase = "First" /\ AutoMovers \subseteq world)

====
